---- MODULE Spec2Model ----
(***************************************************************************)
(* ResuMatch backend: the rank-items endpoint                              *)
(* (Backend/routes/resume.py, rank_and_summarize_resume_items) and the     *)
(* asynchronous summarizer it fans out to                                  *)
(* (Backend/services/summarizer.py).                                       *)
(*                                                                         *)
(* A text is a sequence of characters, a character is a one-element        *)
(* string ("a", " ", "\n"); the three non-ASCII bullet glyphs are written  *)
(* by their code points.  A cosine score is one of a few ordered levels.   *)
(* Python dicts that the handler mutates in place are cells of `objects`,  *)
(* and the lists that hold them hold references (indices into `objects`).  *)
(***************************************************************************)
EXTENDS Integers, Sequences, FiniteSets, TLC

\* ------------------------------------------------------------ bounds
MaxLen == 4       \* longest raw model output that is enumerated
MaxWork == 3      \* most work experiences of a resume (ranking specification)
MaxProj == 4      \* most projects of a resume (ranking specification)
MaxItems == 2     \* most items of a resume (fan-out specification)
MaxCreates == 2   \* most create_resume requests in flight
MaxPayload == 2   \* most items of one kind in a create_resume payload
MaxSignups == 2   \* most signup requests in flight

\* ------------------------------------------------- program constants
max_retries == 3
BackoffBase == 2
CapWorkEx == 2
CapProject == 3

HTTP_200 == 200
HTTP_201 == 201
HTTP_400 == 400
HTTP_401 == 401
HTTP_403 == 403
HTTP_404 == 404
HTTP_409 == 409
HTTP_422 == 422
HTTP_500 == 500
HTTP_503 == 503

\* ------------------------------------------------------------- texts
NL == "\n"
Whitespace == {" ", "\t", "\r", NL}
\* the argument of lstrip: bullet, asterisk, hyphen, en dash, em dash
BulletGlyphs == {"U+2022", "*", "-", "U+2013", "U+2014"}

RECURSIVE LStripChars(_, _)
\* str.lstrip(chars): drop leading characters that are in chars
LStripChars(s, chars) ==
    IF s /= <<>> /\ Head(s) \in chars THEN LStripChars(Tail(s), chars) ELSE s

RECURSIVE RStripChars(_, _)
RStripChars(s, chars) ==
    IF s /= <<>> /\ s[Len(s)] \in chars
    THEN RStripChars(SubSeq(s, 1, Len(s) - 1), chars)
    ELSE s

\* str.strip(): drop leading and trailing whitespace
Strip(s) == RStripChars(LStripChars(s, Whitespace), Whitespace)

RECURSIVE SplitLines(_)
\* str.split('\n'): the pieces between line breaks, empty pieces kept
SplitLines(s) ==
    IF \E i \in 1..Len(s) : s[i] = NL
    THEN LET i == CHOOSE k \in 1..Len(s) :
                     s[k] = NL /\ \A j \in 1..(k - 1) : s[j] /= NL
         IN  <<SubSeq(s, 1, i - 1)>> \o SplitLines(SubSeq(s, i + 1, Len(s)))
    ELSE <<s>>

\* line.strip().lstrip(glyphs).strip()
CleanLine(line) == Strip(LStripChars(Strip(line), BulletGlyphs))

\* the comprehension's filter: "if line.strip()"
KeepLine(line) == Strip(line) /= <<>>

RECURSIVE MapCleanKept(_)
MapCleanKept(lines) ==
    IF lines = <<>> THEN <<>>
    ELSE (IF KeepLine(Head(lines)) THEN <<CleanLine(Head(lines))>> ELSE <<>>)
         \o MapCleanKept(Tail(lines))

\* raw_summary = content.strip(); bullet_lines = [clean(line) for line in
\* raw_summary.split('\n') if line.strip()]
ParseBullets(content) == MapCleanKept(SplitLines(Strip(content)))

RECURSIVE Pow(_, _)
Pow(b, n) == IF n = 0 THEN 1 ELSE b * Pow(b, n - 1)

\* asyncio.sleep(2 ** attempt)
BackoffDelay(attempt) == Pow(BackoffBase, attempt)

\* ------------------------------------------------------------ scores
\* util.cos_sim(...)[0][i].item(): a float, abstracted to ordered levels
Scores == {0, 1, 2}

RECURSIVE InsertDesc(_, _)
\* place x behind every element whose key is >= x's key
InsertDesc(sorted, x) ==
    IF sorted = <<>> THEN <<x>>
    ELSE IF Head(sorted)[1] >= x[1]
         THEN <<Head(sorted)>> \o InsertDesc(Tail(sorted), x)
         ELSE <<x>> \o sorted

RECURSIVE InsertDescTiesFirst(_, _)
\* an unstable order: x goes in front of the elements with an equal key
InsertDescTiesFirst(sorted, x) ==
    IF sorted = <<>> THEN <<x>>
    ELSE IF Head(sorted)[1] > x[1]
         THEN <<Head(sorted)>> \o InsertDescTiesFirst(Tail(sorted), x)
         ELSE <<x>> \o sorted

RECURSIVE SortDescTiesReversed(_)
SortDescTiesReversed(pairs) ==
    IF pairs = <<>> THEN <<>>
    ELSE InsertDescTiesFirst(SortDescTiesReversed(SubSeq(pairs, 1, Len(pairs) - 1)),
                             pairs[Len(pairs)])

RECURSIVE SortDesc(_)
\* list.sort(key=lambda x: x[0], reverse=True) on tuples whose first
\* component is the key: descending, and stable (reverse=True keeps the
\* original order of elements with equal keys)
SortDesc(pairs) ==
    IF pairs = <<>> THEN <<>>
    ELSE InsertDesc(SortDesc(SubSeq(pairs, 1, Len(pairs) - 1)), pairs[Len(pairs)])

\* ---------------------------------------------------- stored resumes
\* a stored work experience / project as create_resume builds it: a fresh
\* uuid identifier and a list-valued description_bullets
WorkExperience(i, bullets) ==
    [work_ex_id |-> <<"work", i>>, description_bullets |-> bullets]

Project(i, bullets) ==
    [project_id |-> <<"proj", i>>, description_bullets |-> bullets]

\* the resume documents with sh[1] work experiences and sh[2] projects,
\* sh in Shapes, every bullet list drawn from BulletLists
ResumeDocs(Shapes, BulletLists) ==
    UNION { { [user_id |-> "u1",
               work_experience |-> [i \in 1..sh[1] |-> WorkExperience(i, bw[i])],
               projects |-> [i \in 1..sh[2] |-> Project(i, bp[i])]]
              : bw \in [1..sh[1] -> BulletLists], bp \in [1..sh[2] -> BulletLists] }
            : sh \in Shapes }

\* strings that ObjectId() accepts; "r2" is well-formed and stored only by
\* a second insert
ValidObjectIds == {"r1", "r2"}
ResumeIds == ValidObjectIds \cup {"not-an-object-id"}
UserIds == {"u1", "u2"}

VARIABLES
    ST_MODEL_LOADED,        \* routes/resume.py: the embedding model loaded
    DEEPSEEK_MODEL_LOADED,  \* services/summarizer.py: client is not None
    collection,             \* the resumes collection: _id -> document
    request,                \* the rank request: resume_id and current user
    pc,                     \* "idle", "gather" (awaiting the tasks), "done"
    objects,                \* the item dicts of the request, by reference
    ranked_items,           \* <<score, category, reference>>, sorted
    top_work_ex_items,      \* references
    top_project_items,      \* references
    tasks,                  \* the coroutines handed to asyncio.gather
    completed,              \* the tasks in the order in which they finished
    effects,                \* how often find_one and st_model.encode ran
    response,               \* the HTTP response
    creates,                \* the create_resume requests, one thread each
    users,                  \* the users collection: documents in insertion order
    signups,                \* the signup requests
    logins                  \* the login requests

vars == <<ST_MODEL_LOADED, DEEPSEEK_MODEL_LOADED, collection, request, pc, objects,
          ranked_items, top_work_ex_items, top_project_items, tasks, completed,
          effects, response, creates, users, signups, logins>>

\* the state of the other endpoints, which the rank endpoint never touches
OtherEndpoints == <<creates, users, signups, logins>>

NoResponse == [status |-> 0]
NoEffects == [find_one |-> 0, encode |-> 0]

InitWith(Docs) ==
    /\ ST_MODEL_LOADED \in BOOLEAN
    /\ DEEPSEEK_MODEL_LOADED \in BOOLEAN
    /\ \E doc \in Docs : collection = [r \in {"r1"} |-> doc]
    /\ request \in [resume_id : ResumeIds, user_id : UserIds]
    /\ pc = "idle"
    /\ objects = <<>>
    /\ ranked_items = <<>>
    /\ top_work_ex_items = <<>>
    /\ top_project_items = <<>>
    /\ tasks = <<>>
    /\ completed = <<>>
    /\ effects = NoEffects
    /\ response = NoResponse
    /\ creates = <<>>
    /\ users = <<>>
    /\ signups = <<>>
    /\ logins = <<>>

\* ------------------------------------- rank_and_summarize_resume_items
\* the two loops that fill items_to_rank: work experiences first, then
\* projects, each in stored order; the dict of entry i is objects[i]
ItemCategories(doc) ==
    [i \in 1..Len(doc.work_experience) |-> "Work Ex"]
    \o [i \in 1..Len(doc.projects) |-> "Project"]

FetchedObjects(doc) == doc.work_experience \o doc.projects

\* original_object['score'] = score
WithScore(obj, score) == obj @@ ("score" :> score)

\* ranked_items before the sort: (score, category, original_object)
ScoredItems(cats, sc) == [i \in 1..Len(cats) |-> <<sc[i], cats[i], i>>]

\* a ranking that ignores the scores
KeepSubmissionOrder(scored) == scored

\* a ranking by an unstable sort
RankItemsTiesReversed(scored) == SortDescTiesReversed(scored)

\* ranked_items.sort(key=lambda x: x[0], reverse=True)
RankItems(scored) == SortDesc(scored)

RECURSIVE SelectLoop(_, _, _)
\* the filtering loop over ranked_items; the result is
\* <<top_work_ex_items, top_project_items>>
SelectLoop(ranked, tw, tp) ==
    IF ranked = <<>> THEN <<tw, tp>>
    ELSE LET x == Head(ranked)
         IN  IF x[2] = "Work Ex" /\ Len(tw) < CapWorkEx
             THEN SelectLoop(Tail(ranked), Append(tw, x[3]), tp)
             ELSE IF x[2] = "Project" /\ Len(tp) < CapProject
                  THEN SelectLoop(Tail(ranked), tw, Append(tp, x[3]))
                  ELSE SelectLoop(Tail(ranked), tw, tp)

RECURSIVE SelectLoopSharedCap(_, _, _)
\* a selection whose work-experience cap counts both lists
SelectLoopSharedCap(ranked, tw, tp) ==
    IF ranked = <<>> THEN <<tw, tp>>
    ELSE LET x == Head(ranked)
         IN  IF x[2] = "Work Ex" /\ Len(tw) + Len(tp) < CapWorkEx
             THEN SelectLoopSharedCap(Tail(ranked), Append(tw, x[3]), tp)
             ELSE IF x[2] = "Project" /\ Len(tp) < CapProject
                  THEN SelectLoopSharedCap(Tail(ranked), tw, Append(tp, x[3]))
                  ELSE SelectLoopSharedCap(Tail(ranked), tw, tp)

SelectTopSharedCap(ranked) == SelectLoopSharedCap(ranked, <<>>, <<>>)

SelectTop(ranked) == SelectLoop(ranked, <<>>, <<>>)

\* a summarize_item that calls the endpoint whatever the bullet list holds
StartTaskAlwaysCalls(obj, ref, item_type) ==
    [item |-> ref, item_type |-> item_type, attempt |-> 0, slept |-> <<>>,
     warnings |-> <<>>, raw |-> "none", pc |-> "call", calls |-> 1, outcome |-> "pending",
     error |-> "none"]

\* summarize_item up to its first suspension: the early return on an empty
\* bullet list, or the first request of call_deepseek_api_async
StartTask(obj, ref, item_type) ==
    LET base == [item |-> ref, item_type |-> item_type, attempt |-> 0,
                 slept |-> <<>>, warnings |-> <<>>, raw |-> "none"]
    IN  IF obj.description_bullets = <<>>
        THEN base @@ [pc |-> "done", calls |-> 0, outcome |-> "unchanged",
                      error |-> "none"]
        ELSE IF ~DEEPSEEK_MODEL_LOADED
             THEN base @@ [pc |-> "done", calls |-> 0, outcome |-> "failed",
                           error |-> "client is not initialized"]
             ELSE base @@ [pc |-> "call", calls |-> 1, outcome |-> "pending",
                           error |-> "none"]

HTTPException(code) == [status |-> code]

RankResponse(work, projects) ==
    [status |-> HTTP_200, top_work_experiences |-> work, top_projects |-> projects]

Finish(resp) ==
    /\ pc' = "done"
    /\ response' = resp
    /\ UNCHANGED <<objects, ranked_items, top_work_ex_items, top_project_items, tasks,
                   completed>>

\* finds: collection.find_one calls, encodes: st_model.encode calls made
Did(finds, encodes) ==
    effects' = [effects EXCEPT !.find_one = @ + finds, !.encode = @ + encodes]

\* a handler that forgets the check of the summarization client
PreconditionsWithoutClient == ST_MODEL_LOADED

\* the two checks at the handler's entry
PreconditionsMet == ST_MODEL_LOADED /\ DEEPSEEK_MODEL_LOADED

\* a handler that serves any caller
AuthorizedAlways(doc, user_id) == TRUE

\* resume_data.get("user_id") == current_user["user_id"]
Authorized(doc, user_id) == doc.user_id = user_id

\* a handler without the early return
NothingToRankNever(cats) == FALSE

\* "if not items_to_rank"
NothingToRank(cats) == cats = <<>>

\* an except clause that swallows the fault and answers with empty lists
SwallowFault == RankResponse(<<>>, <<>>)

\* the except clause of the handler's try: any exception becomes a 500
InternalError == HTTPException(HTTP_500)

\* the tasks that are done when gather first suspends, in task order
InitiallyDone(ts) ==
    LET Done(t) == ts[t].pc = "done"
    IN  SelectSeq([t \in 1..Len(ts) |-> t], Done)

\* a fan-out that starts a task for every ranked item
CreateTasksForAll(objs, tw, tp) ==
    [i \in 1..Len(objs) |->
        StartTask(objs[i], i,
                  IF "work_ex_id" \in DOMAIN objs[i] THEN "work experience" ELSE "project")]

\* a fan-out whose tasks all got the last selected item
CreateTasksLastItem(objs, tw, tp) ==
    LET sel == tw \o tp
    IN  [i \in 1..Len(sel) |->
            StartTask(objs[sel[Len(sel)]], sel[Len(sel)],
                      IF i <= Len(tw) THEN "work experience" ELSE "project")]

\* tasks = [summarize_item(item, "work experience") for the top work
\* experiences] + [summarize_item(item, "project") for the top projects]
CreateTasks(objs, tw, tp) ==
    [i \in 1..Len(tw) |-> StartTask(objs[tw[i]], tw[i], "work experience")]
    \o [i \in 1..Len(tp) |-> StartTask(objs[tp[i]], tp[i], "project")]

\* ". ".join(item.get('description_bullets', [])) raises TypeError when the
\* stored value is None; the loops are outside the handler's try
JoinFaults(doc) ==
    \E i \in 1..Len(FetchedObjects(doc)) :
        FetchedObjects(doc)[i].description_bullets = <<<<"None">>>>

\* The handler from its entry to its first suspension (await gather) or to
\* its return.  ScoreSet: the scores the embedding step may give; Faults:
\* whether something between the first encode and the fan-out may raise.
RankRequest(ScoreSet, Faults) ==
    /\ pc = "idle"
    /\ UNCHANGED <<ST_MODEL_LOADED, DEEPSEEK_MODEL_LOADED, collection, request,
                   OtherEndpoints>>
    /\ IF ~PreconditionsMet
       THEN Finish(HTTPException(HTTP_503)) /\ Did(0, 0)
       ELSE IF request.resume_id \notin ValidObjectIds
       THEN Finish(HTTPException(HTTP_400)) /\ Did(0, 0)
       ELSE IF request.resume_id \notin DOMAIN collection
       THEN Finish(HTTPException(HTTP_404)) /\ Did(1, 0)
       ELSE IF ~Authorized(collection[request.resume_id], request.user_id)
       THEN Finish(HTTPException(HTTP_403)) /\ Did(1, 0)
       ELSE IF JoinFaults(collection[request.resume_id])
       THEN Finish(HTTPException(HTTP_500)) /\ Did(1, 0)
       ELSE LET doc == collection[request.resume_id]
                cats == ItemCategories(doc)
                fetched == FetchedObjects(doc)
            IN  IF NothingToRank(cats)
                THEN Finish(RankResponse(<<>>, <<>>)) /\ Did(1, 0)
                ELSE \E sc \in [1..Len(cats) -> ScoreSet], fault \in Faults :
                       IF fault
                       THEN /\ Finish(InternalError)
                            /\ \E started \in 1..2 : Did(1, started)
                       ELSE LET objs == [i \in 1..Len(cats) |-> WithScore(fetched[i], sc[i])]
                                ranked == RankItems(ScoredItems(cats, sc))
                                top == SelectTop(ranked)
                                ts == CreateTasks(objs, top[1], top[2])
                            IN  /\ objects' = objs
                                /\ ranked_items' = ranked
                                /\ top_work_ex_items' = top[1]
                                /\ top_project_items' = top[2]
                                /\ tasks' = ts
                                /\ completed' = InitiallyDone(ts)
                                /\ Did(1, 2)
                                /\ pc' = "gather"
                                /\ UNCHANGED response

\* ------------------------------------------------- services/summarizer
\* a summarize_item without the except clause: the exception escapes
SummarizePropagates(task, e) ==
    [task EXCEPT !.pc = "done", !.outcome = "raised", !.error = e]

\* summarize_item's except clause: logging.error, the item is left as it is
\* and returned, nothing is raised
SummarizeFailed(task, e) ==
    [task EXCEPT !.pc = "done", !.outcome = "failed", !.error = e]

\* an except clause that raises on the first failed attempt
AttemptFailedNoRetry(task, e) ==
    SummarizeFailed([task EXCEPT !.warnings = Append(@, e)], e)

\* an except clause that re-raises the first error it saw
AttemptFailedFirstError(task, e) ==
    LET logged == [task EXCEPT !.warnings = Append(@, e)]
    IN  IF task.attempt < max_retries - 1
        THEN [logged EXCEPT !.pc = "sleep",
                            !.slept = Append(@, BackoffDelay(task.attempt))]
        ELSE SummarizeFailed(logged, logged.warnings[1])

\* an except clause that sleeps after the last attempt too
AttemptFailedSleepsLast(task, e) ==
    LET logged == [task EXCEPT !.warnings = Append(@, e),
                               !.slept = Append(@, BackoffDelay(task.attempt))]
    IN  IF task.attempt < max_retries - 1
        THEN [logged EXCEPT !.pc = "sleep"]
        ELSE SummarizeFailed(logged, e)

\* an except clause that allows one attempt more than max_retries
AttemptFailedOneMore(task, e) ==
    LET logged == [task EXCEPT !.warnings = Append(@, e)]
    IN  IF task.attempt < max_retries
        THEN [logged EXCEPT !.pc = "sleep",
                            !.slept = Append(@, BackoffDelay(task.attempt))]
        ELSE SummarizeFailed(logged, e)

\* call_deepseek_api_async, the except clause of one attempt:
\* logging.warning, then sleep 2 ** attempt before the next attempt, or
\* re-raise e after the last one (into summarize_item's except clause)
AttemptFailed(task, e) ==
    LET logged == [task EXCEPT !.warnings = Append(@, e)]
    IN  IF task.attempt < max_retries - 1
        THEN [logged EXCEPT !.pc = "sleep",
                            !.slept = Append(@, BackoffDelay(task.attempt))]
        ELSE SummarizeFailed(logged, e)

\* the loop's next iteration after the sleep: the next request is sent
NextAttempt(task) ==
    [task EXCEPT !.pc = "call", !.attempt = @ + 1, !.calls = @ + 1]

\* a summarize_item that drops the parsed lines
KeepOldBullets(obj, bullets) == obj

\* item['description_bullets'] = bullet_lines
WithBullets(obj, bullets) == [obj EXCEPT !.description_bullets = bullets]

\* an event loop blocked by the task in front: one call or sleep at a time
RunningOneAtATime(t) ==
    /\ pc = "gather"
    /\ t \in DOMAIN tasks
    /\ \A u \in 1..(t - 1) : tasks[u].pc = "done"

\* every task handed to gather is scheduled on the event loop and runs
\* whenever its own await returns
Running(t) == pc = "gather" /\ t \in DOMAIN tasks

Untouched == <<ST_MODEL_LOADED, DEEPSEEK_MODEL_LOADED, collection, request,
               ranked_items, top_work_ex_items, top_project_items, effects,
               OtherEndpoints>>

\* the order of completion after task t took a step to the record task
Completion(t, task) ==
    IF task.pc = "done" THEN Append(completed, t) ELSE completed

\* the endpoint answers with a text (one of Contents):
\* call_deepseek_api_async returns it and summarize_item replaces the
\* item's bullets by the parsed lines
ApiReturn(t, Contents) ==
    /\ Running(t)
    /\ tasks[t].pc = "call"
    /\ \E content \in Contents :
           /\ objects' = [objects EXCEPT
                            ![tasks[t].item] = WithBullets(@, ParseBullets(content))]
           /\ tasks' = [tasks EXCEPT ![t] = [@ EXCEPT !.pc = "done",
                                                       !.outcome = "summarized",
                                                       !.raw = content]]
    /\ completed' = Completion(t, tasks'[t])
    /\ UNCHANGED <<Untouched, pc, response>>

\* the endpoint answers with message.content = None: the call returns it,
\* and response["content"].strip() raises inside summarize_item's try
ApiNullContent(t) ==
    /\ Running(t)
    /\ tasks[t].pc = "call"
    /\ tasks' = [tasks EXCEPT ![t] = SummarizeFailed(@, "AttributeError")]
    /\ completed' = Completion(t, tasks'[t])
    /\ UNCHANGED <<Untouched, pc, response, objects>>

\* the request raises (network error, non-2xx status) or the response
\* lacks choices / usage: an exception (one of Kinds) inside the attempt's try
ApiFail(t, Kinds) ==
    /\ Running(t)
    /\ tasks[t].pc = "call"
    /\ \E e \in Kinds : tasks' = [tasks EXCEPT ![t] = AttemptFailed(@, e)]
    /\ completed' = Completion(t, tasks'[t])
    /\ UNCHANGED <<Untouched, pc, response, objects>>

\* asyncio.sleep returns
Wake(t) ==
    /\ Running(t)
    /\ tasks[t].pc = "sleep"
    /\ tasks' = [tasks EXCEPT ![t] = NextAttempt(@)]
    /\ UNCHANGED <<Untouched, pc, response, objects, completed>>

\* ----------------------------------------------------------- reassembly
RankedWorkExperience(item) ==
    [work_ex_id |-> item.work_ex_id,
     description_bullets |-> item.description_bullets,
     score |-> item.score]

\* a response model that falls back to a default score
RankedProjectDefaultScore(item) ==
    [project_id |-> item.project_id,
     description_bullets |-> item.description_bullets,
     score |-> 0]

RankedProject(item) ==
    [project_id |-> item.project_id,
     description_bullets |-> item.description_bullets,
     score |-> item.score]

Range(f) == {f[i] : i \in DOMAIN f}

\* a final sort without reverse=True
SortByScoreAscending(models) ==
    LET sorted == SortDesc([i \in 1..Len(models) |-> <<models[i].score, models[i]>>])
    IN  [i \in 1..Len(sorted) |-> sorted[Len(sorted) + 1 - i][2]]

\* x.sort(key=lambda x: x.score, reverse=True)
SortByScore(models) ==
    LET sorted == SortDesc([i \in 1..Len(models) |-> <<models[i].score, models[i]>>])
    IN  [i \in 1..Len(sorted) |-> sorted[i][2]]

\* the loop over summarized_results with its two id sets
FinalWorkEx(results, work_ex_ids) ==
    LET Mine(item) == "work_ex_id" \in DOMAIN item /\ item.work_ex_id \in work_ex_ids
        kept == SelectSeq(results, Mine)
    IN  [i \in 1..Len(kept) |-> RankedWorkExperience(kept[i])]

FinalProjects(results, work_ex_ids, project_ids) ==
    LET Mine(item) ==
            /\ ~("work_ex_id" \in DOMAIN item /\ item.work_ex_id \in work_ex_ids)
            /\ "project_id" \in DOMAIN item /\ item.project_id \in project_ids
        kept == SelectSeq(results, Mine)
    IN  [i \in 1..Len(kept) |-> RankedProject(kept[i])]

\* a wait that returns with the first task that finished
GatherFirstDone == \E t \in DOMAIN tasks : tasks[t].pc = "done"

\* await asyncio.gather(*tasks) returns when every task is done
GatherDone == \A t \in DOMAIN tasks : tasks[t].pc = "done"

\* results collected as the tasks finish (asyncio.as_completed)
GatherInCompletionOrder(ts, objs, order) ==
    [i \in 1..Len(order) |-> objs[ts[order[i]].item]]

\* gather's result list: the items the tasks returned, in the order of the
\* tasks, whatever the order in which they finished
GatherResults(ts, objs, order) == [t \in 1..Len(ts) |-> objs[ts[t].item]]

\* asyncio.gather returns and the handler reassembles the two lists; an
\* exception that escaped a task, or one raised by the reassembly (one of
\* Faults), is caught by the handler's except clause
Respond(Faults) ==
    /\ pc = "gather"
    /\ UNCHANGED <<ST_MODEL_LOADED, DEEPSEEK_MODEL_LOADED, collection, request, effects,
                   OtherEndpoints>>
    /\ IF \E t \in DOMAIN tasks : tasks[t].outcome = "raised"
       THEN Finish(InternalError)
       ELSE /\ GatherDone
            /\ \E fault \in Faults :
                 IF fault
                 THEN Finish(InternalError)
                 ELSE LET summarized_results == GatherResults(tasks, objects, completed)
                          work_ex_ids ==
                              {objects[r].work_ex_id : r \in Range(top_work_ex_items)}
                          project_ids ==
                              {objects[r].project_id : r \in Range(top_project_items)}
                      IN  Finish(RankResponse(
                              SortByScore(FinalWorkEx(summarized_results, work_ex_ids)),
                              SortByScore(FinalProjects(summarized_results, work_ex_ids,
                                                        project_ids))))

\* -------------------------------------------------------- create_resume
\* Python's None in an Optional[str] field; a text is a sequence of characters
None == <<"None">>

\* None as the value of description_bullets
NoBullets == <<None>>

\* "not x" for an Optional[str]: None and the empty string
Falsy(x) == x = None \/ x = <<>>

\* "if not edu.institution or not edu.degree: continue"
SkipEducation(edu) == Falsy(edu.institution) \/ Falsy(edu.degree)

\* "if not exp.company or not exp.role: continue"
SkipExperience(exp) == Falsy(exp.company) \/ Falsy(exp.role)

\* "if not proj.title: continue"
SkipProject(proj) == Falsy(proj.title)

\* "if not skill.skill_name or not skill.skill_name.strip(): continue"
SkipSkill(skill) == Falsy(skill.skill_name) \/ Strip(skill.skill_name) = <<>>

\* a loop that starts from the model's default, None, and sets the list only
\* when there is a text
ExperienceBulletsOrNone(exp) ==
    IF Falsy(exp.description) /\ Falsy(exp.achievements)
    THEN NoBullets
    ELSE (IF Falsy(exp.description) THEN <<>> ELSE SplitLines(Strip(exp.description)))
         \o (IF Falsy(exp.achievements) THEN <<>> ELSE SplitLines(Strip(exp.achievements)))

\* bullets = []; extended by description.strip().split('\n') and by
\* achievements.strip().split('\n') when the text is there
ExperienceBullets(exp) ==
    (IF Falsy(exp.description) THEN <<>> ELSE SplitLines(Strip(exp.description)))
    \o (IF Falsy(exp.achievements) THEN <<>> ELSE SplitLines(Strip(exp.achievements)))

\* bullets = []; replaced by description.strip().split('\n') when there is one
ProjectBullets(proj) ==
    IF Falsy(proj.description) THEN <<>> ELSE SplitLines(Strip(proj.description))

\* the four loops: kept holds the items that "continue" lets through, in
\* their order; uuid4 ids are modelled by the position in the stored list
TransformEducation(items) ==
    LET Stays(item) == ~SkipEducation(item)
        kept == SelectSeq(items, Stays)
    IN  [i \in 1..Len(kept) |->
            [education_id |-> <<"edu", i>>,
             institution_name |-> kept[i].institution,
             degree |-> kept[i].degree]]

TransformExperience(items) ==
    LET Stays(item) == ~SkipExperience(item)
        kept == SelectSeq(items, Stays)
    IN  [i \in 1..Len(kept) |->
            [work_ex_id |-> <<"work", i>>,
             job_title |-> kept[i].role,
             company_name |-> kept[i].company,
             description_bullets |-> ExperienceBullets(kept[i])]]

TransformProjects(items) ==
    LET Stays(item) == ~SkipProject(item)
        kept == SelectSeq(items, Stays)
    IN  [i \in 1..Len(kept) |->
            [project_id |-> <<"proj", i>>,
             project_name |-> kept[i].title,
             description_bullets |-> ProjectBullets(kept[i])]]

TransformSkills(items) ==
    LET Stays(item) == ~SkipSkill(item)
        kept == SelectSeq(items, Stays)
    IN  [i \in 1..Len(kept) |->
            [skill_id |-> <<"skill", i>>,
             skill_name |-> Strip(kept[i].skill_name)]]

\* resume_to_create.model_dump(mode='json')
ResumeToCreate(user_id, payload) ==
    [user_id |-> user_id,
     work_experience |-> TransformExperience(payload.experience),
     projects |-> TransformProjects(payload.projects),
     education |-> TransformEducation(payload.education),
     skills |-> TransformSkills(payload.skills)]

\* "if not payload.personal or not payload.personal.name or not
\* payload.personal.email"; an email that passed EmailStr is never empty
PersonalMissing(personal) == ~personal.present \/ Falsy(personal.name)

\* collection.find_one({"user_id": ...}) found a document
HasResume(coll, user_id) == \E r \in DOMAIN coll : coll[r].user_id = user_id

\* the _id that insert_one gives the document
ObjectIds == <<"r1", "r2", "r3", "r4">>
NewObjectId(coll) == ObjectIds[Cardinality(DOMAIN coll) + 1]

\* insert_one
InsertOne(coll, doc) == coll @@ (NewObjectId(coll) :> doc)

RankState == <<ST_MODEL_LOADED, DEEPSEEK_MODEL_LOADED, request, pc, objects, ranked_items,
               top_work_ex_items, top_project_items, tasks, completed, effects, response>>

\* create_resume up to and with the existence check: 422 without a usable
\* personal object, 409 when find_one finds a resume of the user
CreateCheck(k) ==
    /\ k \in DOMAIN creates
    /\ creates[k].pc = "start"
    /\ creates' = [creates EXCEPT ![k] =
           IF PersonalMissing(@.payload.personal)
           THEN [@ EXCEPT !.pc = "done", !.response = HTTPException(HTTP_422)]
           ELSE IF HasResume(collection, @.user_id)
           THEN [@ EXCEPT !.pc = "done", !.response = HTTPException(HTTP_409)]
           ELSE [@ EXCEPT !.pc = "checked"]]
    /\ UNCHANGED <<RankState, collection, users, signups, logins>>

\* create_resume from the transformation to its return: the document is
\* inserted and the answer is 201 with its id, or insert_one raises (one of
\* Faults) and the answer is 500
CreateInsert(k, Faults) ==
    /\ k \in DOMAIN creates
    /\ creates[k].pc = "checked"
    /\ \E fault \in Faults :
         IF fault
         THEN /\ creates' = [creates EXCEPT ![k] =
                     [@ EXCEPT !.pc = "done", !.response = HTTPException(HTTP_500)]]
              /\ UNCHANGED collection
         ELSE /\ collection' =
                     InsertOne(collection, ResumeToCreate(creates[k].user_id, creates[k].payload))
              /\ creates' = [creates EXCEPT ![k] =
                     [@ EXCEPT !.pc = "done",
                               !.response = [status |-> HTTP_201,
                                             inserted_id |-> NewObjectId(collection)]]]
    /\ UNCHANGED <<RankState, users, signups, logins>>

\* ---------------------------------------------------------- routes/auth
\* services/auth_service.py: the hash of a password, and whether a password
\* matches a stored hash
get_password_hash(password) == <<"hash", password>>
verify_password(password, hashed_password) == hashed_password = get_password_hash(password)

\* services/auth_service.py: a token that carries the email and the user_id
create_access_token(email, user_id) == [email |-> email, user_id |-> user_id]

Token(access_token, code) == [status |-> code, access_token |-> access_token]

\* HTTPException with its detail
Refusal(code, detail) == [status |-> code, detail |-> detail]

\* users_collection.find_one({"email": ...}): the documents that match, in
\* insertion order; find_one returns the first or nothing
Matching(coll, email) ==
    LET Match(doc) == doc.email = email
    IN  SelectSeq(coll, Match)

\* the document signup builds; uuid4 is modelled by the position
UserDoc(coll, email, password) ==
    [user_id |-> <<"user", Len(coll) + 1>>,
     email |-> email,
     hashed_password |-> get_password_hash(password),
     is_active |-> TRUE]

\* server processes that serve the app against the same database; each
\* runs its async handlers on one event loop, so a handler without an await
\* runs from its first statement to its last before the loop takes the next
Workers == {"w1", "w2"}

\* the event loop of worker w is inside a signup handler
LoopBusy(w) == \E j \in DOMAIN signups : signups[j].worker = w /\ signups[j].pc = "looked up"

\* signup up to and with the lookup: 400 when the email is registered
SignupLookup(k) ==
    /\ k \in DOMAIN signups
    /\ signups[k].pc = "start"
    /\ ~LoopBusy(signups[k].worker)
    /\ signups' = [signups EXCEPT ![k] =
           IF Matching(users, @.email) /= <<>>
           THEN [@ EXCEPT !.pc = "done",
                          !.response = Refusal(HTTP_400, "Email already registered")]
           ELSE [@ EXCEPT !.pc = "looked up"]]
    /\ UNCHANGED <<RankState, collection, creates, users, logins>>

\* signup from the new document to its return: insert_one, then the token
SignupInsert(k) ==
    /\ k \in DOMAIN signups
    /\ signups[k].pc = "looked up"
    /\ LET doc == UserDoc(users, signups[k].email, signups[k].password)
       IN  /\ users' = Append(users, doc)
           /\ signups' = [signups EXCEPT ![k] =
                  [@ EXCEPT !.pc = "done",
                            !.response = Token(create_access_token(doc.email, doc.user_id),
                                               HTTP_201)]]
    /\ UNCHANGED <<RankState, collection, creates, logins>>

\* a login that lets an inactive account in
LoginResponseIgnoresActive(coll, email, password) ==
    LET found == Matching(coll, email)
    IN  IF found = <<>>
        THEN Refusal(HTTP_401, "Incorrect email or password")
        ELSE IF ~verify_password(password, found[1].hashed_password)
        THEN Refusal(HTTP_401, "Incorrect email or password")
        ELSE Token(create_access_token(found[1].email, found[1].user_id), HTTP_200)

\* login: the lookup, the password check, the is_active check, the token
LoginResponse(coll, email, password) ==
    LET found == Matching(coll, email)
    IN  IF found = <<>>
        THEN Refusal(HTTP_401, "Incorrect email or password")
        ELSE IF ~verify_password(password, found[1].hashed_password)
        THEN Refusal(HTTP_401, "Incorrect email or password")
        ELSE IF ~found[1].is_active
        THEN Refusal(HTTP_403, "User account is inactive")
        ELSE Token(create_access_token(found[1].email, found[1].user_id), HTTP_200)

Login(k) ==
    /\ k \in DOMAIN logins
    /\ logins[k].pc = "start"
    /\ logins' = [logins EXCEPT ![k] =
           [@ EXCEPT !.pc = "done",
                     !.response = LoginResponse(users, logins[k].email,
                                                logins[k].password)]]
    /\ UNCHANGED <<RankState, collection, creates, users, signups>>

\* -------------------------------------------------------- specifications
TaskIds == 1..(CapWorkEx + CapProject)

\* what the text-generation endpoint may do to one request
ErrorKinds == {"network", "http status", "malformed"}

Alphabet == {"-", "*", " ", NL, "a"}
RawOutputs == UNION {[1..n -> Alphabet] : n \in 0..MaxLen}

OrigBullets == << <<"a">> >>
FanOutputs == { <<"b">>, <<"-", " ", "c">> }

\* the scores of the fan-out: two values give ties and strict orders
FanScores == {1, 2}

\* the fan-out: resumes of at most MaxItems items
Init ==
    InitWith(ResumeDocs({sh \in (0..MaxItems) \X (0..MaxItems) : sh[1] + sh[2] <= MaxItems},
                        {<<>>, OrigBullets}))

Next ==
    \/ RankRequest(FanScores, BOOLEAN)
    \/ \E t \in TaskIds : ApiReturn(t, FanOutputs)
    \/ \E t \in TaskIds : ApiNullContent(t)
    \/ \E t \in TaskIds : ApiFail(t, {"network"})
    \/ \E t \in TaskIds : Wake(t)
    \/ Respond({FALSE})

Spec == Init /\ [][Next]_vars

\* one summarization in full: a resume of one item, every raw output
InitSumm == InitWith(ResumeDocs({<<1, 0>>, <<0, 1>>}, {<<>>, OrigBullets}))

NextSumm ==
    \/ RankRequest({1}, {FALSE})
    \/ \E t \in TaskIds : ApiReturn(t, RawOutputs)
    \/ \E t \in TaskIds : ApiNullContent(t)
    \/ \E t \in TaskIds : ApiFail(t, ErrorKinds)
    \/ \E t \in TaskIds : Wake(t)
    \/ Respond({FALSE})

SpecSumm == InitSumm /\ [][NextSumm]_vars

\* ranking and selection: resumes of up to MaxWork + MaxProj items, none
\* of which has bullets to summarize
InitRank == InitWith(ResumeDocs((0..MaxWork) \X (0..MaxProj), {<<>>}))

NextRank ==
    \/ RankRequest(Scores, {FALSE})
    \/ Respond({FALSE})

SpecRank == InitRank /\ [][NextRank]_vars

\* selection and faults: resumes with one work experience more than the
\* cap lets through, so that one of them is never selected; the handler may
\* raise before the fan-out and in the reassembly
InitSel == InitWith(ResumeDocs({<<CapWorkEx + 1, 0>>}, {<<>>, OrigBullets}))

NextSel ==
    \/ RankRequest(Scores, BOOLEAN)
    \/ \E t \in TaskIds : ApiReturn(t, FanOutputs)
    \/ \E t \in TaskIds : ApiNullContent(t)
    \/ \E t \in TaskIds : ApiFail(t, {"network"})
    \/ \E t \in TaskIds : Wake(t)
    \/ Respond(BOOLEAN)

SpecSel == InitSel /\ [][NextSel]_vars

\* create_resume: the payload items that are enumerated
EducationItems == [institution : {<<>>, <<"U">>}, degree : {None, <<"M">>, <<"B">>}]
ExperienceItems ==
    [company : {None, <<"x">>}, role : {<<>>, <<"y">>},
     description : {None, <<" ">>, <<"a", NL, "b">>}, achievements : {None, <<"c">>}]
ProjectItems == [title : {None, <<>>, <<"t">>}, description : {None, <<" ">>, <<"a", NL, "b">>}]
SkillItems == [skill_name : {None, <<>>, <<" ">>, <<" ", "p">>, <<"q", " ">>}]

UpTo(Items) == UNION {[1..n -> Items] : n \in 0..MaxPayload}

Person == [present |-> TRUE, name |-> <<"J">>]
EmptyPayload ==
    [personal |-> Person, education |-> <<>>, experience |-> <<>>, projects |-> <<>>,
     skills |-> <<>>]

\* payloads that vary in one part at a time
Payloads ==
    {[EmptyPayload EXCEPT !.personal = p] :
        p \in {[present |-> FALSE, name |-> None], [present |-> TRUE, name |-> <<>>]}}
    \cup {[EmptyPayload EXCEPT !.education = x] : x \in UpTo(EducationItems)}
    \cup {[EmptyPayload EXCEPT !.experience = x] : x \in UpTo(ExperienceItems)}
    \cup {[EmptyPayload EXCEPT !.projects = x] : x \in UpTo(ProjectItems)}
    \cup {[EmptyPayload EXCEPT !.skills = x] : x \in UpTo(SkillItems)}

\* one payload with an item of each kind
FullPayload ==
    [EmptyPayload EXCEPT
        !.education = <<[institution |-> <<"U">>, degree |-> <<"M">>]>>,
        !.experience = <<[company |-> <<"x">>, role |-> <<"y">>,
                          description |-> <<"a", NL, "b">>, achievements |-> None]>>,
        !.projects = <<[title |-> <<"t">>, description |-> None]>>,
        !.skills = <<[skill_name |-> <<" ", "p">>]>>]

CreateRequest(user_id, payload) ==
    [user_id |-> user_id, payload |-> payload, pc |-> "start", response |-> NoResponse]

\* ingestion: an empty resumes collection; either one create_resume request
\* with any of the payloads, or up to MaxCreates requests in flight at once,
\* each by any user; then a rank request for the first stored resume
InitIngest ==
    /\ ST_MODEL_LOADED = TRUE
    /\ DEEPSEEK_MODEL_LOADED = TRUE
    /\ collection = <<>>
    /\ request = [resume_id |-> "r1", user_id |-> "u1"]
    /\ pc = "idle"
    /\ objects = <<>>
    /\ ranked_items = <<>>
    /\ top_work_ex_items = <<>>
    /\ top_project_items = <<>>
    /\ tasks = <<>>
    /\ completed = <<>>
    /\ effects = NoEffects
    /\ response = NoResponse
    /\ \/ \E payload \in Payloads : creates = <<CreateRequest("u1", payload)>>
       \/ \E n \in 2..MaxCreates :
              \E who \in [1..n -> UserIds] :
                  creates = [k \in 1..n |-> CreateRequest(who[k], FullPayload)]
    /\ users = <<>>
    /\ signups = <<>>
    /\ logins = <<>>

NextIngest ==
    \/ \E k \in 1..MaxCreates : CreateCheck(k)
    \/ \E k \in 1..MaxCreates : CreateInsert(k, BOOLEAN)
    \/ RankRequest({1}, {FALSE})
    \/ Respond({FALSE})

SpecIngest == InitIngest /\ [][NextIngest]_vars

\* accounts: a users collection that is empty or holds one account, active
\* or not; up to MaxSignups signup requests in flight, on any workers, and
\* one login request
Emails == {"a@x", "b@x"}
Passwords == {"pw1", "pw2"}

StoredUsers ==
    {<<>>} \cup {<<[UserDoc(<<>>, "a@x", "pw1") EXCEPT !.is_active = active]>> :
                    active \in BOOLEAN}

InitAuth ==
    /\ ST_MODEL_LOADED = TRUE
    /\ DEEPSEEK_MODEL_LOADED = TRUE
    /\ collection = <<>>
    /\ request = [resume_id |-> "r1", user_id |-> "u1"]
    /\ pc = "done"
    /\ objects = <<>>
    /\ ranked_items = <<>>
    /\ top_work_ex_items = <<>>
    /\ top_project_items = <<>>
    /\ tasks = <<>>
    /\ completed = <<>>
    /\ effects = NoEffects
    /\ response = NoResponse
    /\ creates = <<>>
    /\ users \in StoredUsers
    /\ \E n \in 1..MaxSignups :
           signups \in [1..n -> [email : Emails, password : {"pw1"}, worker : Workers,
                                 pc : {"start"}, response : {NoResponse}]]
    /\ logins \in [1..1 -> [email : Emails, password : Passwords,
                            pc : {"start"}, response : {NoResponse}]]

NextAuth ==
    \/ \E k \in 1..MaxSignups : SignupLookup(k)
    \/ \E k \in 1..MaxSignups : SignupInsert(k)
    \/ \E k \in 1..1 : Login(k)

SpecAuth == InitAuth /\ [][NextAuth]_vars

\* the largest fan-out: a resume with more work experiences and projects
\* than the caps let through, every item with bullets to summarize, so that
\* CapWorkEx + CapProject tasks call the endpoint
InitLive ==
    InitWith(ResumeDocs({<<CapWorkEx + 1, CapProject + 1>>}, {OrigBullets}))

\* what the tasks of the request may do next.  The endpoint fails every
\* request, which makes each task use all its attempts: the runs with the
\* most requests and the most steps (an answer ends a task at once).
AwaitReturns ==
    \/ \E t \in TaskIds : ApiFail(t, {"network"})
    \/ \E t \in TaskIds : Wake(t)

\* the request once its handler runs: the awaits of its tasks return and
\* the handler is resumed by gather
Progress == AwaitReturns \/ Respond({FALSE})

NextLive == RankRequest({1}, {FALSE}) \/ Progress

\* every await client.chat.completions.create returns or raises, every
\* asyncio.sleep returns, and the event loop resumes a coroutine whose
\* await has returned: a step of the request that can be taken is taken
\* eventually
SpecLive == InitLive /\ [][NextLive]_vars /\ WF_vars(Progress)

\* ----------------------------------------------------------- properties
Min(a, b) == IF a < b THEN a ELSE b

\* the stored document of the request and its items as fetched
StoredDoc == collection["r1"]
Fetched(ref) == FetchedObjects(StoredDoc)[ref]

\* the request went through ranking and selection
Ranked == objects /= <<>>

\* the score the ranking step gave the item
RankedScore(ref) ==
    LET i == CHOOSE k \in DOMAIN ranked_items : ranked_items[k][3] = ref
    IN  ranked_items[i][1]

Entries(list, key, id) == {i \in DOMAIN list : list[i][key] = id}

\* C1: a summarization that fails for a selected item never fails the
\* request: whatever subset of the tasks failed, the request ends with a
\* normal (200) response, and by then every sibling task has run to its end.
C1_ItemFailureNeverFailsRequest ==
    /\ (\E t \in DOMAIN tasks : tasks[t].outcome = "failed")
           => response.status \in {0, 200}
    /\ (pc = "done" /\ tasks /= <<>>)
           => /\ response.status = 200
              /\ \A t \in DOMAIN tasks :
                     /\ tasks[t].pc = "done"
                     /\ tasks[t].outcome \in {"summarized", "failed", "unchanged"}

C1_Witness ==
    /\ pc = "done"
    /\ response.status = 200
    /\ \E t1, t2 \in DOMAIN tasks :
           /\ tasks[t1].outcome = "failed" /\ tasks[t1].calls = 3
           /\ tasks[t2].outcome = "summarized"

\* what the response must hold for the item of task t
ExpectedBullets(t) ==
    IF tasks[t].outcome = "summarized"
    THEN ParseBullets(tasks[t].raw)
    ELSE Fetched(tasks[t].item).description_bullets

\* C2: every selected item is in the response list of its own category
\* exactly once, with its identifier and the score ranking gave it, with
\* its original bullets if its summarization failed and with the rewritten
\* bullets if it succeeded.
C2_SelectedItemsReturnedOnce ==
    (pc = "done" /\ tasks /= <<>>) =>
        /\ response.status = 200
        /\ {tasks[t].item : t \in DOMAIN tasks}
               = Range(top_work_ex_items) \cup Range(top_project_items)
        /\ Len(response.top_work_experiences) = Len(top_work_ex_items)
        /\ Len(response.top_projects) = Len(top_project_items)
        /\ \A t \in DOMAIN tasks :
               LET ref == tasks[t].item
               IN  IF ref \in Range(top_work_ex_items)
                   THEN LET list == response.top_work_experiences
                            at == Entries(list, "work_ex_id", Fetched(ref).work_ex_id)
                        IN  /\ Cardinality(at) = 1
                            /\ \A i \in at :
                                   /\ list[i].score = RankedScore(ref)
                                   /\ list[i].description_bullets = ExpectedBullets(t)
                   ELSE LET list == response.top_projects
                            at == Entries(list, "project_id", Fetched(ref).project_id)
                        IN  /\ Cardinality(at) = 1
                            /\ \A i \in at :
                                   /\ list[i].score = RankedScore(ref)
                                   /\ list[i].description_bullets = ExpectedBullets(t)

C2_Witness ==
    /\ pc = "done"
    /\ Len(tasks) = 2
    /\ tasks[1].outcome = "failed" /\ tasks[2].outcome = "summarized"
    /\ Len(response.top_work_experiences) = 1 /\ Len(response.top_projects) = 1
    /\ response.top_work_experiences[1].description_bullets = OrigBullets
    /\ response.top_projects[1].description_bullets = << <<"c">> >>
    /\ response.top_projects[1].score = 2

\* C3: at most 3 attempts per item; the first successful attempt ends the
\* loop, every failed attempt before the third is followed by another
\* attempt, and the failure reaches the caller only after the third failed
\* attempt in a row, with the error of that last attempt.
C3_AtMostThreeAttempts ==
    \A t \in DOMAIN tasks :
        LET k == tasks[t]
        IN  /\ k.calls <= 3
            /\ k.pc = "call" => Len(k.warnings) = k.calls - 1
            /\ k.pc = "sleep" => Len(k.warnings) = k.calls /\ k.calls < 3
            /\ k.outcome = "summarized" => Len(k.warnings) = k.calls - 1
            /\ (k.pc = "done" /\ k.warnings /= <<>> /\ Len(k.warnings) = k.calls)
                   => /\ k.calls = 3
                      /\ k.outcome = "failed"
                      /\ k.error = k.warnings[3]

C3_Witness ==
    \E t \in DOMAIN tasks :
        /\ tasks[t].outcome = "failed"
        /\ tasks[t].warnings = <<"network", "malformed", "http status">>
        /\ tasks[t].error = "http status"
        /\ tasks[t].calls = 3

\* C4 as stated: when all three attempts fail the delays waited are 1, 2
\* and 4 (2^n after failed attempt n, n = 0, 1, 2).
C4_DelaysOneTwoFour ==
    \A t \in DOMAIN tasks :
        (tasks[t].pc = "done" /\ Len(tasks[t].warnings) = 3)
            => tasks[t].slept = <<1, 2, 4>>

\* C4, amended: the client waits 2^n only after failed attempt n = 0 and
\* n = 1; after the third failed attempt it raises at once, so the delays
\* of a summarization whose three attempts failed are 1 and 2.
C4_DelaysOneTwo ==
    \A t \in DOMAIN tasks :
        LET k == tasks[t]
        IN  /\ k.slept = SubSeq(<<1, 2>>, 1, Min(Len(k.warnings), 2))
            /\ (k.pc = "done" /\ Len(k.warnings) = 3) => k.slept = <<1, 2>>

C4_Witness ==
    \E t \in DOMAIN tasks :
        /\ tasks[t].pc = "done"
        /\ tasks[t].outcome = "failed"
        /\ Len(tasks[t].warnings) = 3
        /\ tasks[t].slept = <<1, 2>>

\* C5: summarize_item on an item whose bullet list is empty returns the
\* item as it got it, without an error, and sends no request.
C5_EmptyBulletsNoCall ==
    \A t \in DOMAIN tasks :
        Fetched(tasks[t].item).description_bullets = <<>>
            => /\ tasks[t].pc = "done"
               /\ tasks[t].calls = 0
               /\ tasks[t].outcome = "unchanged"
               /\ tasks[t].error = "none"
               /\ tasks[t].warnings = <<>>
               /\ objects[tasks[t].item]
                      = WithScore(Fetched(tasks[t].item), RankedScore(tasks[t].item))

C5_Witness ==
    /\ pc = "done"
    /\ response.status = 200
    /\ Len(tasks) = 1
    /\ tasks[1].outcome = "unchanged"
    /\ tasks[1].calls = 0
    /\ objects[1].description_bullets = <<>>

\* what summarize_item handed back for task t, and what it was given
Returned(t) == objects[tasks[t].item]
Given(t) == WithScore(Fetched(tasks[t].item), RankedScore(tasks[t].item))

C7_ParsedBulletsClean ==
    \A t \in DOMAIN tasks :
        tasks[t].outcome = "summarized" =>
            LET b == Returned(t).description_bullets
            IN  \A i \in DOMAIN b :
                    /\ b[i] /= <<>>
                    /\ Head(b[i]) \notin BulletGlyphs \cup Whitespace
                    /\ b[i][Len(b[i])] \notin Whitespace

\* C8: selection returns exactly min(2, work experiences) work experiences
\* and min(3, projects) projects, each count whatever the other category
\* holds, and never the same item twice.
C8_SelectedCounts ==
    Ranked =>
        /\ Len(top_work_ex_items) = Min(2, Len(StoredDoc.work_experience))
        /\ Len(top_project_items) = Min(3, Len(StoredDoc.projects))
        /\ Cardinality(Range(top_work_ex_items)) = Len(top_work_ex_items)
        /\ Cardinality(Range(top_project_items)) = Len(top_project_items)
        /\ \A r \in Range(top_work_ex_items) : "work_ex_id" \in DOMAIN objects[r]
        /\ \A r \in Range(top_project_items) : "project_id" \in DOMAIN objects[r]

C8_Witness ==
    /\ pc = "gather"
    /\ Len(StoredDoc.work_experience) = 3
    /\ Len(StoredDoc.projects) = 4
    /\ Len(top_work_ex_items) = 2
    /\ Len(top_project_items) = 3

\* the references of a category, in submission order
WorkRefs == 1..Len(StoredDoc.work_experience)
ProjectRefs == {r \in DOMAIN objects : r \notin WorkRefs}

Descending(refs) ==
    \A i, j \in DOMAIN refs : i < j => objects[refs[i]].score >= objects[refs[j]].score

\* C9: the selected items of a category are its highest-scoring ones, in
\* descending score order: no unselected item of the category scores
\* strictly higher than a selected one.
C9_SelectedAreTopScoring ==
    Ranked =>
        /\ Descending(top_work_ex_items)
        /\ Descending(top_project_items)
        /\ \A r \in Range(top_work_ex_items) : \A u \in WorkRefs \ Range(top_work_ex_items) :
               objects[u].score <= objects[r].score
        /\ \A r \in Range(top_project_items) : \A u \in ProjectRefs \ Range(top_project_items) :
               objects[u].score <= objects[r].score

\* three work experiences scored low, high, middle: the high and the
\* middle one are selected, in that order
C9_Witness ==
    /\ pc = "done"
    /\ response.status = 200
    /\ Ranked
    /\ Len(StoredDoc.work_experience) = 3
    /\ objects[1].score = 0 /\ objects[2].score = 2 /\ objects[3].score = 1
    /\ top_work_ex_items = <<2, 3>>
    /\ Len(response.top_work_experiences) = 2
    /\ response.top_work_experiences[1].score = 2
    /\ response.top_work_experiences[2].score = 1

\* C10: the ranking is a permutation of the submitted items in descending
\* score order, and items of equal score keep their submission order (work
\* experiences before projects, each in stored order).
C10_RankingStableDescending ==
    Ranked =>
        /\ Len(ranked_items) = Len(objects)
        /\ {ranked_items[i][3] : i \in DOMAIN ranked_items} = DOMAIN objects
        /\ \A i \in DOMAIN ranked_items :
               /\ ranked_items[i][1] = objects[ranked_items[i][3]].score
               /\ ranked_items[i][2] =
                      (IF ranked_items[i][3] \in WorkRefs THEN "Work Ex" ELSE "Project")
        /\ \A i, j \in DOMAIN ranked_items :
               i < j => \/ ranked_items[i][1] > ranked_items[j][1]
                        \/ /\ ranked_items[i][1] = ranked_items[j][1]
                           /\ ranked_items[i][3] < ranked_items[j][3]

\* a tie between a work experience and a project submitted after it, and
\* a later item ranked ahead of an earlier one
C10_Witness ==
    /\ Len(ranked_items) >= 3
    /\ ranked_items[1][3] > ranked_items[2][3]
    /\ ranked_items[2][1] = ranked_items[3][1]
    /\ ranked_items[2][2] = "Work Ex"
    /\ ranked_items[3][2] = "Project"

DescendingScores(list) ==
    \A i, j \in DOMAIN list : i < j => list[i].score >= list[j].score

\* the fetched item a response entry stands for
RefOfWorkEx(entry) ==
    CHOOSE r \in DOMAIN objects :
        "work_ex_id" \in DOMAIN objects[r] /\ objects[r].work_ex_id = entry.work_ex_id
RefOfProject(entry) ==
    CHOOSE r \in DOMAIN objects :
        "project_id" \in DOMAIN objects[r] /\ objects[r].project_id = entry.project_id

\* C11: in every response both lists are sorted by descending score, the
\* score being the one the ranking step gave the item; no step of a
\* summarization, successful or failed, changes the score of any item.
C11_SortedByRankingScore ==
    /\ Ranked => \A r \in DOMAIN objects : objects[r].score = RankedScore(r)
    /\ (pc = "done" /\ response.status = 200) =>
           /\ DescendingScores(response.top_work_experiences)
           /\ DescendingScores(response.top_projects)
           /\ \A i \in DOMAIN response.top_work_experiences :
                  LET entry == response.top_work_experiences[i]
                  IN  entry.score = RankedScore(RefOfWorkEx(entry))
           /\ \A i \in DOMAIN response.top_projects :
                  LET entry == response.top_projects[i]
                  IN  entry.score = RankedScore(RefOfProject(entry))

C11_Witness ==
    /\ pc = "done" /\ response.status = 200
    /\ Len(tasks) = 2
    /\ tasks[1].outcome = "failed" /\ tasks[2].outcome = "summarized"
    /\ tasks[2].slept /= <<>>
    /\ Len(response.top_work_experiences) = 2
    /\ response.top_work_experiences[1].score = 2
    /\ response.top_work_experiences[1].description_bullets = OrigBullets
    /\ response.top_work_experiences[2].score = 1
    /\ response.top_work_experiences[2].description_bullets /= OrigBullets

\* C12: the fan-out is a join: a response exists only when every
\* summarization task has finished, by success, by leaving the item
\* unchanged or by exhausting its attempts; none is still in a call or in
\* a backoff sleep.
C12_ResponseOnlyAfterJoin ==
    (response /= NoResponse /\ tasks /= <<>>) =>
        /\ \A t \in DOMAIN tasks :
               /\ tasks[t].pc = "done"
               /\ tasks[t].outcome \in {"unchanged", "summarized", "failed"}
        /\ Range(completed) = DOMAIN tasks

C12_Witness ==
    /\ pc = "done" /\ response.status = 200
    /\ Len(tasks) = 2
    /\ tasks[1].outcome = "failed" /\ tasks[1].slept = <<1, 2>>
    /\ tasks[2].outcome = "summarized"
    /\ completed = <<2, 1>>

\* the items the selection step let through
Selected == Range(top_work_ex_items) \cup Range(top_project_items)

\* the item each task works on
TaskItems == [t \in DOMAIN tasks |-> tasks[t].item]

\* C13: the items that are summarized are fixed by the selection step
\* before any summarization call starts: the tasks are exactly the
\* selected items, in every later step (whatever task moves, whatever its
\* call returns) the selection and the tasks' items stay as they are, and
\* an item that was not selected gets no task, hence no external call, and
\* keeps its bullets.
C13_SelectionFixedBeforeCalls ==
    [][ /\ (pc = "idle" /\ pc' = "gather") =>
               /\ \A t \in DOMAIN tasks' : tasks'[t].calls <= 1 /\ tasks'[t].raw = "none"
               /\ {tasks'[t].item : t \in DOMAIN tasks'} = Selected'
        /\ pc = "gather" =>
               /\ ranked_items' = ranked_items
               /\ top_work_ex_items' = top_work_ex_items
               /\ top_project_items' = top_project_items
               /\ TaskItems' = TaskItems
               /\ {tasks[t].item : t \in DOMAIN tasks} = Selected
               /\ \A r \in DOMAIN objects \ Selected :
                      /\ objects'[r] = objects[r]
                      /\ objects[r].description_bullets = Fetched(r).description_bullets
      ]_vars

C13_Witness ==
    /\ pc = "done" /\ response.status = 200
    /\ Len(objects) = CapWorkEx + 1
    /\ Len(tasks) = CapWorkEx
    /\ tasks[1].outcome = "failed" /\ tasks[1].calls = max_retries
    /\ tasks[2].outcome = "summarized"
    /\ \E r \in DOMAIN objects \ Selected :
           /\ objects[r].description_bullets = OrigBullets
           /\ objects[r].score = objects[tasks[2].item].score

\* the task of a selected item
TaskOf(ref) == CHOOSE t \in DOMAIN tasks : tasks[t].item = ref

\* C14: with the scores and each item's call outcomes fixed, the two
\* response lists are fixed, members and order, whatever the order in
\* which the tasks finished: each list holds the selected items of its
\* category, found by identifier, in the order of the ranking (descending
\* score), each with the bullets its own task left.
C14_ResponseIndependentOfCompletionOrder ==
    (pc = "done" /\ response.status = 200 /\ tasks /= <<>>) =>
        /\ response.top_work_experiences =
               [i \in 1..Len(top_work_ex_items) |->
                   LET ref == top_work_ex_items[i]
                   IN  [work_ex_id |-> Fetched(ref).work_ex_id,
                        description_bullets |-> ExpectedBullets(TaskOf(ref)),
                        score |-> RankedScore(ref)]]
        /\ response.top_projects =
               [i \in 1..Len(top_project_items) |->
                   LET ref == top_project_items[i]
                   IN  [project_id |-> Fetched(ref).project_id,
                        description_bullets |-> ExpectedBullets(TaskOf(ref)),
                        score |-> RankedScore(ref)]]

C14_Witness ==
    /\ pc = "done" /\ response.status = 200
    /\ Len(tasks) = 2
    /\ completed = <<2, 1>>
    /\ tasks[1].outcome = "summarized" /\ tasks[2].outcome = "summarized"
    /\ tasks[1].raw /= tasks[2].raw
    /\ Len(response.top_work_experiences) = 2
    /\ response.top_work_experiences[1].score = response.top_work_experiences[2].score
    /\ response.top_work_experiences[1].work_ex_id = Fetched(tasks[1].item).work_ex_id

\* C15: a task that is slow, in backoff or failing neither blocks nor
\* alters its siblings: while the handler waits in gather every task that
\* is in a call can have its call return or fail and every task in a
\* backoff sleep can wake up, whatever state the other tasks are in; the
\* bullets of a finished task's item are the ones its own call outcome
\* gives, and the item of an unfinished task is as ranking left it.
C15_SiblingsNeitherBlockedNorAltered ==
    pc = "gather" =>
        \A t \in DOMAIN tasks :
            /\ tasks[t].pc = "call" =>
                   /\ ENABLED ApiReturn(t, FanOutputs)
                   /\ ENABLED ApiNullContent(t)
                   /\ ENABLED ApiFail(t, {"network"})
            /\ tasks[t].pc = "sleep" => ENABLED Wake(t)
            /\ tasks[t].pc = "done" =>
                   objects[tasks[t].item].description_bullets = ExpectedBullets(t)
            /\ tasks[t].pc /= "done" =>
                   objects[tasks[t].item] =
                       WithScore(Fetched(tasks[t].item), RankedScore(tasks[t].item))

C15_Witness ==
    /\ pc = "gather"
    /\ Len(tasks) = 2
    /\ tasks[1].pc = "sleep" /\ tasks[1].slept = <<1, 2>>
    /\ tasks[2].outcome = "summarized"
    /\ completed = <<2>>
    /\ objects[tasks[2].item].description_bullets = << <<"c">> >>
    /\ objects[tasks[1].item].description_bullets = OrigBullets

\* C16: the tasks share no mutable state: every task has an item of its
\* own, a step of one task changes nothing but that task and the bullets of
\* that task's item, so no other task and no other item shows the write,
\* and the stored document is never written.
C16_TasksShareNoMutableState ==
    [][ (pc = "gather" /\ pc' = "gather") =>
            \E t \in DOMAIN tasks :
                /\ \A u \in DOMAIN tasks \ {t} :
                       /\ tasks'[u] = tasks[u]
                       /\ tasks[u].item /= tasks[t].item
                /\ \A r \in DOMAIN objects \ {tasks[t].item} : objects'[r] = objects[r]
                /\ DOMAIN objects' = DOMAIN objects
                /\ collection' = collection
      ]_vars

C16_Witness ==
    /\ pc = "gather"
    /\ Len(tasks) = 2
    /\ tasks[1].outcome = "summarized" /\ tasks[1].raw = <<"b">>
    /\ tasks[2].pc = "call" /\ tasks[2].attempt = 1
    /\ objects[tasks[1].item].description_bullets = << <<"b">> >>
    /\ objects[tasks[2].item].description_bullets = OrigBullets
    /\ Fetched(tasks[1].item).description_bullets = OrigBullets

\* nothing of the pipeline ran: no lookup, no embedding, no fetched item,
\* no ranking, no task (hence no external call)
NothingRan ==
    /\ effects = NoEffects
    /\ objects = <<>> /\ ranked_items = <<>> /\ tasks = <<>>

\* the résumé was looked up once and nothing else ran
OnlyLookedUp ==
    /\ effects = [find_one |-> 1, encode |-> 0]
    /\ objects = <<>> /\ ranked_items = <<>> /\ tasks = <<>>

\* C17: when the embedding model is not loaded or the summarization
\* client is not configured the request is answered 503 and nothing else
\* happened, whatever the résumé id and the caller: no storage lookup, no
\* embedding, no task and so no external call.
C17_UnavailableRejectedBeforeFetch ==
    (pc = "done" /\ ~(ST_MODEL_LOADED /\ DEEPSEEK_MODEL_LOADED)) =>
        /\ response = [status |-> HTTP_503]
        /\ NothingRan

C17_Witness ==
    /\ pc = "done"
    /\ ST_MODEL_LOADED /\ ~DEEPSEEK_MODEL_LOADED
    /\ request = [resume_id |-> "r1", user_id |-> "u1"]
    /\ Len(StoredDoc.work_experience) = 1
    /\ StoredDoc.work_experience[1].description_bullets = OrigBullets
    /\ response.status = HTTP_503

\* C18: with both services available, a request for a well-formed id that
\* is not stored is answered 404 and one for a résumé whose user_id is not
\* the caller's is answered 403; in both cases the lookup is all that
\* happened (no embedding, no ranking, no task) and the response carries
\* no list.
C18_NotFoundAndForbidden ==
    (pc = "done" /\ ST_MODEL_LOADED /\ DEEPSEEK_MODEL_LOADED
        /\ request.resume_id \in ValidObjectIds) =>
        /\ request.resume_id \notin DOMAIN collection =>
               response = [status |-> HTTP_404] /\ OnlyLookedUp
        /\ (/\ request.resume_id \in DOMAIN collection
            /\ collection[request.resume_id].user_id /= request.user_id) =>
               response = [status |-> HTTP_403] /\ OnlyLookedUp

C18_Witness ==
    /\ pc = "done"
    /\ ST_MODEL_LOADED /\ DEEPSEEK_MODEL_LOADED
    /\ request = [resume_id |-> "r1", user_id |-> "u2"]
    /\ StoredDoc.user_id = "u1"
    /\ Len(StoredDoc.projects) = 1
    /\ StoredDoc.projects[1].description_bullets = OrigBullets
    /\ response.status = HTTP_403

\* C19: with both services available, a request by its owner for a stored
\* résumé that has no work experience and no project is answered 200 with
\* two empty lists, and the lookup is all that happened: no embedding, no
\* task and so no external call.
C19_EmptyResumeEmptyLists ==
    (pc = "done" /\ ST_MODEL_LOADED /\ DEEPSEEK_MODEL_LOADED
        /\ request.resume_id \in DOMAIN collection
        /\ collection[request.resume_id].user_id = request.user_id
        /\ collection[request.resume_id].work_experience = <<>>
        /\ collection[request.resume_id].projects = <<>>) =>
        /\ response = [status |-> HTTP_200,
                       top_work_experiences |-> <<>>, top_projects |-> <<>>]
        /\ OnlyLookedUp

C19_Witness ==
    /\ pc = "done"
    /\ ST_MODEL_LOADED /\ DEEPSEEK_MODEL_LOADED
    /\ request = [resume_id |-> "r1", user_id |-> "u1"]
    /\ StoredDoc.work_experience = <<>> /\ StoredDoc.projects = <<>>
    /\ response.status = HTTP_200
    /\ response.top_work_experiences = <<>> /\ response.top_projects = <<>>
    /\ effects.find_one = 1

\* C20: a fault raised by embedding, ranking, selection or reassembly
\* ends the request with a 500 that carries no list.  A request whose
\* embedding started but left nothing ranked was answered 500; every 500
\* is a bare status, also when summaries had already been written; and a
\* response that carries lists is a 200 holding every selected item,
\* never a part of them.
C20_FaultAbortsWholeRequest ==
    pc = "done" =>
        /\ (effects.encode > 0 /\ ~Ranked) => response = [status |-> HTTP_500]
        /\ response.status = HTTP_500 => DOMAIN response = {"status"}
        /\ "top_work_experiences" \in DOMAIN response \/ "top_projects" \in DOMAIN response =>
               /\ response.status = HTTP_200
               /\ Len(response.top_work_experiences) = Len(top_work_ex_items)
               /\ Len(response.top_projects) = Len(top_project_items)

C20_Witness ==
    /\ pc = "done"
    /\ response = [status |-> HTTP_500]
    /\ Len(tasks) = CapWorkEx
    /\ tasks[1].outcome = "summarized" /\ tasks[2].outcome = "failed"
    /\ objects[tasks[1].item].description_bullets = << <<"b">> >>
    /\ effects.encode = 2

\* ======================================================= create_resume
\* C21 as stated: whatever way create_resume requests interleave, the
\* resumes collection holds at most one resume per user_id, and a create
\* by a user who already has one is answered 409.
C21_OneResumePerUser ==
    \A r1, r2 \in DOMAIN collection :
        collection[r1].user_id = collection[r2].user_id => r1 = r2

\* ================================================================ auth
\* C22 as stated: whatever way signup requests interleave, no two user
\* documents share an email.
C22_EmailsUnique ==
    \A i, j \in DOMAIN users : users[i].email = users[j].email => i = j

\* the first stored account with the email, 0 when there is none
AccountOf(email) ==
    IF \E i \in DOMAIN users : users[i].email = email
    THEN CHOOSE i \in DOMAIN users :
             users[i].email = email /\ \A j \in 1..(i - 1) : users[j].email /= email
    ELSE 0

\* C23: a login is answered with a token exactly when an account with the
\* email exists, the password matches its stored hash and it is active, and
\* the token is that account's; an unknown email and a wrong password get
\* one and the same 401 answer, an inactive account with the right
\* password gets 403, and no refusal carries a token.
C23_LoginIssuesTokenOnlyWhenValid ==
    [][ \A k \in DOMAIN logins :
           (logins[k].pc = "start" /\ logins'[k].pc = "done") =>
               LET a == AccountOf(logins[k].email)
                   known == a /= 0
                   right == known /\ users[a].hashed_password = <<"hash", logins[k].password>>
                   r == logins'[k].response
               IN  /\ "access_token" \in DOMAIN r <=> (right /\ users[a].is_active)
                   /\ "access_token" \in DOMAIN r =>
                          /\ r.status = HTTP_200
                          /\ r.access_token =
                                 [email |-> users[a].email, user_id |-> users[a].user_id]
                   /\ ~right =>
                          r = [status |-> HTTP_401, detail |-> "Incorrect email or password"]
                   /\ (right /\ ~users[a].is_active) => r.status = HTTP_403
      ]_vars

C23_Witness ==
    /\ Len(logins) = 1
    /\ logins[1].pc = "done"
    /\ logins[1].email = "a@x" /\ logins[1].password = "pw1"
    /\ Len(users) >= 1
    /\ users[1].email = "a@x" /\ ~users[1].is_active
    /\ users[1].hashed_password = <<"hash", "pw1">>
    /\ logins[1].response.status = HTTP_403

\* the requests sent to the text-generation endpoint so far by the tasks
\* of the rank request
RECURSIVE CallsOf(_)
CallsOf(ts) == IF ts = <<>> THEN 0 ELSE ts[1].calls + CallsOf(Tail(ts))

Present(x) == x # None /\ x # <<>>

\* a text that is None, empty or made of whitespace only
Blank(x) == x = None \/ \A i \in DOMAIN x : x[i] \in Whitespace

\* the positions of the payload items that have their required fields
ValidEducation(items) ==
    {i \in DOMAIN items : Present(items[i].institution) /\ Present(items[i].degree)}
ValidExperience(items) ==
    {i \in DOMAIN items : Present(items[i].company) /\ Present(items[i].role)}
ValidProjects(items) == {i \in DOMAIN items : Present(items[i].title)}
ValidSkills(items) == {i \in DOMAIN items : ~Blank(items[i].skill_name)}

\* the j-th smallest position of S
Nth(S, j) == CHOOSE i \in S : Cardinality({k \in S : k < i}) = j - 1

\* the create_resume requests answered 201
Created == {k \in DOMAIN creates : creates[k].pc = "done" /\ creates[k].response.status = HTTP_201}

\* C25: create_resume skips the payload items that miss a required field
\* (an education without institution or degree, an experience without
\* company or role, a project without title, a skill with a blank name)
\* and stores every other item, one stored item per valid payload item in
\* the order of the payload; every stored work experience and project has
\* a list, never null, as its description_bullets, so the text-joining step
\* of the rank endpoint never faults on a resume made by create_resume.
C25_ValidItemsStoredInOrder ==
    /\ \A k \in Created :
         LET doc == collection[creates[k].response.inserted_id]
             p == creates[k].payload
             edu == ValidEducation(p.education)
             exp == ValidExperience(p.experience)
             proj == ValidProjects(p.projects)
             skill == ValidSkills(p.skills)
         IN  /\ Len(doc.education) = Cardinality(edu)
             /\ \A j \in DOMAIN doc.education :
                  /\ doc.education[j].institution_name = p.education[Nth(edu, j)].institution
                  /\ doc.education[j].degree = p.education[Nth(edu, j)].degree
             /\ Len(doc.work_experience) = Cardinality(exp)
             /\ \A j \in DOMAIN doc.work_experience :
                  LET stored == doc.work_experience[j]
                      item == p.experience[Nth(exp, j)]
                  IN  /\ stored.company_name = item.company
                      /\ stored.job_title = item.role
                      /\ stored.description_bullets # NoBullets
                      /\ (<<"a">> \in Range(stored.description_bullets))
                            <=> (item.description = <<"a", NL, "b">>)
                      /\ (<<"c">> \in Range(stored.description_bullets))
                            <=> (item.achievements = <<"c">>)
             /\ Len(doc.projects) = Cardinality(proj)
             /\ \A j \in DOMAIN doc.projects :
                  LET stored == doc.projects[j]
                      item == p.projects[Nth(proj, j)]
                  IN  /\ stored.project_name = item.title
                      /\ stored.description_bullets # NoBullets
                      /\ (<<"a">> \in Range(stored.description_bullets))
                            <=> (item.description = <<"a", NL, "b">>)
             /\ Len(doc.skills) = Cardinality(skill)
             /\ \A j \in DOMAIN doc.skills :
                  \E lead, trail \in {<<>>, <<" ">>} :
                      p.skills[Nth(skill, j)].skill_name
                          = lead \o doc.skills[j].skill_name \o trail
    /\ \A r \in DOMAIN collection : ~JoinFaults(collection[r])
    /\ pc = "done" => response.status # HTTP_500

\* a payload whose first experience lacks its company and whose second has
\* company and role but no text was stored as one work experience with an
\* empty list of bullets, and the rank request on that resume was answered
C25_Witness ==
    /\ 1 \in Created
    /\ LET p == creates[1].payload
           doc == collection[creates[1].response.inserted_id]
       IN  /\ Len(p.experience) = 2
           /\ p.experience[1].company = None
           /\ ValidExperience(p.experience) = {2}
           /\ p.experience[2].description = None
           /\ p.experience[2].achievements = None
           /\ Len(doc.work_experience) = 1
           /\ doc.work_experience[1].description_bullets = <<>>
    /\ pc = "done"
    /\ response.status = HTTP_200
====
